---- MODULE Spec2Model ----
(***************************************************************************)
(* Model of src/main.py: SystemeAlerte (circular alert buffer),            *)
(* Inventaire (per-product FIFO queues and signed ledger) and              *)
(* GestionnaireCommandes (parser, feasibility check, assembly, sort).      *)
(*                                                                         *)
(* A Python str is a sequence of one-character strings; the Python value   *)
(* None is the one-element sequence <<"None">>, which is no str because    *)
(* its element is not a single character.                                  *)
(***************************************************************************)
EXTENDS Integers, Sequences, FiniteSets, TLC

VARIABLES
    historique,  \* SystemeAlerte.historique: the Taille slots
    index_ecr,   \* SystemeAlerte.index_ecr: the write cursor, 0-based
    files,       \* Inventaire._files: dict produit -> deque
    comptes,     \* Inventaire._comptes: Counter produit -> int
    dernier,     \* the last call made by the caller: arguments, result, output
    notes        \* the messages the caller passed to alerteur.noter, in order

vars == <<historique, index_ecr, files, comptes, dernier, notes>>

(***************************************************************************)
(* Bounds of the model.                                                    *)
(***************************************************************************)
\* longest physical queue a product may reach
MaxFile == 3
\* deepest debt (negative ledger count) a product may reach
MaxDette == 2
\* most tokens in one arrival or order text, one product identifier in use
MaxDemande == 3
\* most tokens in one arrival or order text, two product identifiers in use
MaxLot == 2
\* most messages the caller records itself in the alert buffer
MaxNotes == 5
\* most units in one package of mixed volumes
MaxColis == 4
\* most characters in a text given to the parser alone
MaxTexte == 5

(***************************************************************************)
(* Program constants.                                                      *)
(***************************************************************************)
\* size of the circular buffer, main.py:18
Taille == 3
\* low-stock threshold, main.py:72
Seuil == 2

None == <<"None">>

(***************************************************************************)
(* String literals of the program.                                         *)
(***************************************************************************)
LitAlerte == <<"A", "L", "E", "R", "T", "E", ":", " ", "S", "t", "o", "c", "k", " ", "f", "a", "i", "b", "l", "e", " ">>
LitReste == <<" ", "(", "R", "e", "s", "t", "e", ":", " ">>
LitFin == <<")">>
LitRupture == <<"!", "!", "!", " ", "R", "U", "P", "T", "U", "R", "E", " ", ":", " ">>
LitBackorder == <<" ", "m", "i", "s", " ", "e", "n", " ", "d", "e", "t", "t", "e", " ", "(", "B", "a", "c", "k", "o", "r", "d", "e", "r", ")", ".">>
LitDette == <<"D", "e", "t", "t", "e", " ", "c", "r", "é", "é", "e", " ", "s", "u", "r", " ">>
LitPasDAlerte == <<"P", "a", "s", " ", "d", "'", "a", "l", "e", "r", "t", "e", ".">>
LitManque == <<"M", "a", "n", "q", "u", "e", " ">>
LitRequis == <<" ", "(", "R", "e", "q", "u", "i", "s", ":", " ">>
LitAnnulee == <<"!", "!", "!", " ", "C", "O", "M", "M", "A", "N", "D", "E", " ", "A", "N", "N", "U", "L", "E", "E", " ", ":", " ", "S", "t", "o", "c", "k", " ", "i", "n", "s", "u", "f", "f", "i", "s", "a", "n", "t", ".">>
LitArrivage == <<"-", "-", ">", " ", "A", "r", "r", "i", "v", "a", "g", "e", " ", "t", "r", "a", "i", "t", "é", " ", ":", " ">>
LitProduits == <<" ", "p", "r", "o", "d", "u", "i", "t", "s", ".">>

(***************************************************************************)
(* Python built-ins used by the program.                                   *)
(***************************************************************************)
Chiffres == <<"0", "1", "2", "3", "4", "5", "6", "7", "8", "9">>

EstChiffre(c) == \E i \in 1..10 : Chiffres[i] = c

ValeurChiffre(c) == (CHOOSE i \in 1..10 : Chiffres[i] = c) - 1

\* the characters str.split() and str.strip() treat as whitespace
Blancs == {" ", "\t", "\n", "\r"}

\* bool(x) for x a str or None
Vrai(x) == x # None /\ x # <<>>

RECURSIVE StrNat(_)
StrNat(n) ==
    IF n < 10 THEN <<Chiffres[n + 1]>>
    ELSE Append(StrNat(n \div 10), Chiffres[(n % 10) + 1])

\* str(n) / f"{n}" for an int
Str(n) == IF n < 0 THEN <<"-">> \o StrNat(-n) ELSE StrNat(n)

RECURSIVE LStrip(_)
LStrip(s) == IF s # <<>> /\ Head(s) \in Blancs THEN LStrip(Tail(s)) ELSE s

RECURSIVE RStrip(_)
RStrip(s) ==
    IF s # <<>> /\ s[Len(s)] \in Blancs THEN RStrip(SubSeq(s, 1, Len(s) - 1)) ELSE s

\* s.strip()
Strip(s) == RStrip(LStrip(s))

\* s.replace(',', ' ')
Replace(s) == [i \in 1..Len(s) |-> IF s[i] = "," THEN " " ELSE s[i]]

RECURSIVE SplitDe(_, _, _)
SplitDe(s, courant, acc) ==
    IF s = <<>> THEN (IF courant = <<>> THEN acc ELSE Append(acc, courant))
    ELSE IF Head(s) \in Blancs
         THEN SplitDe(Tail(s), <<>>, IF courant = <<>> THEN acc ELSE Append(acc, courant))
         ELSE SplitDe(Tail(s), Append(courant, Head(s)), acc)

\* s.split(): split on runs of whitespace, no empty pieces
Split(s) == SplitDe(s, <<>>, <<>>)

RECURSIVE ValeurDe(_, _)
ValeurDe(s, acc) ==
    IF s = <<>> THEN acc
    ELSE IF Head(s) = "_" THEN ValeurDe(Tail(s), acc)
         ELSE ValeurDe(Tail(s), 10 * acc + ValeurChiffre(Head(s)))

\* digits, with single underscores allowed between two digits
EstLitteralEntier(s) ==
    /\ s # <<>>
    /\ EstChiffre(s[1])
    /\ EstChiffre(s[Len(s)])
    /\ \A i \in 1..Len(s) : EstChiffre(s[i]) \/ s[i] = "_"
    /\ \A i \in 1..(Len(s) - 1) : ~(s[i] = "_" /\ s[i + 1] = "_")

\* int(s): [ok |-> FALSE] stands for ValueError
IntDe(s) ==
    LET t == Strip(s)
        signe == t # <<>> /\ t[1] \in {"+", "-"}
        corps == IF signe THEN Tail(t) ELSE t
    IN  IF EstLitteralEntier(corps)
        THEN [ok |-> TRUE,
              val |-> IF signe /\ t[1] = "-" THEN -ValeurDe(corps, 0)
                      ELSE ValeurDe(corps, 0)]
        ELSE [ok |-> FALSE, val |-> 0]

\* dict / Counter item assignment d[k] = v
Maj(d, k, v) == [x \in (DOMAIN d) \cup {k} |-> IF x = k THEN v ELSE d[x]]

\* number of occurrences of x in the list s
Occurrences(s, x) == Cardinality({i \in 1..Len(s) : s[i] = x})

(***************************************************************************)
(* An event sent to an output channel during a call.                       *)
(***************************************************************************)
Evt(canal, texte) == [canal |-> canal, texte |-> texte]

(***************************************************************************)
(* GestionnaireCommandes: static helpers.                                  *)
(***************************************************************************)
\* _parser without the replacement of commas
ParserSansRemplacement(texte) ==
    IF ~Vrai(texte) THEN <<>>
    ELSE LET morceaux == Split(texte)
             gardes == SelectSeq(morceaux, LAMBDA x : Vrai(Strip(x)))
         IN  [i \in 1..Len(gardes) |-> Strip(gardes[i])]

\* _parser
Parser(texte) ==
    IF ~Vrai(texte) THEN <<>>
    ELSE LET nettoye == Replace(texte)
             morceaux == Split(nettoye)
             gardes == SelectSeq(morceaux, LAMBDA x : Vrai(Strip(x)))
         IN  [i \in 1..Len(gardes) |-> Strip(gardes[i])]

\* _extraire_vol
ExtraireVol(nom_produit) ==
    LET r == IntDe(SubSeq(nom_produit, 2, Len(nom_produit)))
    IN  IF r.ok THEN r.val ELSE 0

\* list.sort(key=..., reverse=True) is stable: an element goes after every
\* element whose key is greater than or equal to its own
RECURSIVE Inserer(_, _)
Inserer(triee, x) ==
    IF triee = <<>> THEN <<x>>
    ELSE IF ExtraireVol(Head(triee)) >= ExtraireVol(x)
         THEN <<Head(triee)>> \o Inserer(Tail(triee), x)
         ELSE <<x>> \o triee

RECURSIVE TriDe(_, _)
TriDe(reste, triee) ==
    IF reste = <<>> THEN triee ELSE TriDe(Tail(reste), Inserer(triee, Head(reste)))

\* the sort without reverse=True: increasing volume
RECURSIVE InsererCroissant(_, _)
InsererCroissant(triee, x) ==
    IF triee = <<>> THEN <<x>>
    ELSE IF ExtraireVol(Head(triee)) <= ExtraireVol(x)
         THEN <<Head(triee)>> \o InsererCroissant(Tail(triee), x)
         ELSE <<x>> \o triee

RECURSIVE TriCroissantDe(_, _)
TriCroissantDe(reste, triee) ==
    IF reste = <<>> THEN triee
    ELSE TriCroissantDe(Tail(reste), InsererCroissant(triee, Head(reste)))

TrierSansReverse(produits) == TriCroissantDe(produits, <<>>)

\* sorted(produits, key=...)[::-1]: decreasing volume, equal volumes reversed
TrierPuisInverser(produits) ==
    LET t == TriCroissantDe(produits, <<>>)
    IN  [i \in 1..Len(t) |-> t[Len(t) + 1 - i]]

\* _trier_par_volume
TrierParVolume(produits) == TriDe(produits, <<>>)

(***************************************************************************)
(* The state of the objects, threaded through the calls of one handler:    *)
(* [historique, index_ecr, files, comptes, journal], journal being the     *)
(* output (print, logging) of the call so far.                             *)
(***************************************************************************)
Etat(h, i, f, c) ==
    [historique |-> h, index_ecr |-> i, files |-> f, comptes |-> c, journal |-> <<>>]

Emettre(st, canal, texte) == [st EXCEPT !.journal = Append(@, Evt(canal, texte))]

(***************************************************************************)
(* SystemeAlerte                                                           *)
(***************************************************************************)
\* SystemeAlerte.noter
Noter(st, message) ==
    LET journalise == Emettre(st, "logging.warning", message)
    IN  [journalise EXCEPT
            !.historique = [@ EXCEPT ![st.index_ecr + 1] = message],
            !.index_ecr = (st.index_ecr + 1) % Taille]

\* SystemeAlerte.afficher_tout: the text shown for Slot 1 .. Slot Taille
AfficherTout(st) ==
    [i \in 1..Taille |->
        LET pos == (st.index_ecr + (i - 1)) % Taille
            msg == st.historique[pos + 1]
        IN  IF Vrai(msg) THEN msg ELSE LitPasDAlerte]

(***************************************************************************)
(* Inventaire                                                              *)
(***************************************************************************)
\* Inventaire.quantite_comptable: reading a Counter inserts nothing
QuantiteComptable(st, produit) ==
    IF produit \in DOMAIN st.comptes THEN st.comptes[produit] ELSE 0

\* the same lookup on a mapping that stores the default it returns
\* (collections.defaultdict(int) in place of collections.Counter)
LectureAvecInsertion(st, produit) ==
    [st |-> [st EXCEPT !.comptes = Maj(@, produit, QuantiteComptable(st, produit))],
     val |-> QuantiteComptable(st, produit)]

\* The call inventaire.quantite_comptable(produit) with the state it leaves:
\* Counter.__missing__ returns 0 and stores nothing.
LectureComptable(st, produit) ==
    [st |-> st, val |-> QuantiteComptable(st, produit)]

\* ajouter with the queue created anew at every call
AjouterReinitialise(st, produit) ==
    [st EXCEPT
        !.files = Maj(@, produit, <<produit>>),
        !.comptes = Maj(@, produit, QuantiteComptable(st, produit) + 1)]

\* ajouter that hands an arriving unit to a standing debt instead of queueing it
AjouterSoldantLaDette(st, produit) ==
    LET file == IF produit \in DOMAIN st.files THEN st.files[produit] ELSE <<>>
    IN  [st EXCEPT
            !.files = Maj(@, produit, IF QuantiteComptable(st, produit) < 0
                                      THEN file ELSE Append(file, produit)),
            !.comptes = Maj(@, produit, QuantiteComptable(st, produit) + 1)]

\* Inventaire.ajouter
Ajouter(st, produit) ==
    LET file == IF produit \in DOMAIN st.files THEN st.files[produit] ELSE <<>>
    IN  [st EXCEPT
            !.files = Maj(@, produit, Append(file, produit)),
            !.comptes = Maj(@, produit, QuantiteComptable(st, produit) + 1)]

\* f"ALERTE: Stock faible {produit} (Reste: {restant})"
MsgStockFaible(produit, restant) ==
    LitAlerte \o produit \o LitReste \o Str(restant) \o LitFin

\* f"!!! RUPTURE : {produit} mis en dette (Backorder)."
MsgRupture(produit) == LitRupture \o produit \o LitBackorder

\* _verifier_seuil alerting only when the count has just crossed the threshold
VerifierSeuilAuPassage(st, produit) ==
    LET restant == QuantiteComptable(st, produit)
    IN  IF restant = Seuil - 1 THEN Noter(st, MsgStockFaible(produit, restant)) ELSE st

\* Inventaire._verifier_seuil
VerifierSeuil(st, produit) ==
    LET restant == QuantiteComptable(st, produit)
    IN  IF restant < Seuil THEN Noter(st, MsgStockFaible(produit, restant)) ELSE st

\* Inventaire._signaler_rupture
SignalerRupture(st, produit) ==
    Emettre(Emettre(st, "print", MsgRupture(produit)),
            "logging.error", LitDette \o produit)

\* sortir decrementing the count only when a unit is there to take
SortirSiDisponible(st, produit) ==
    LET present == produit \in DOMAIN st.files /\ st.files[produit] # <<>>
        item == IF present THEN Head(st.files[produit]) ELSE None
        depile == IF present
                  THEN [st EXCEPT
                           !.comptes = Maj(@, produit, QuantiteComptable(st, produit) - 1),
                           !.files[produit] = Tail(@)]
                  ELSE st
        verifie == VerifierSeuil(depile, produit)
    IN  [st |-> IF item = None THEN SignalerRupture(verifie, produit) ELSE verifie,
         item |-> item]

\* sortir signalling a backorder when the count is negative, not when the pop fails
SortirRuptureSiDette(st, produit) ==
    LET decompte == [st EXCEPT
                        !.comptes = Maj(@, produit, QuantiteComptable(st, produit) - 1)]
        present == produit \in DOMAIN st.files /\ st.files[produit] # <<>>
        item == IF present THEN Head(st.files[produit]) ELSE None
        depile == IF present
                  THEN [decompte EXCEPT !.files[produit] = Tail(@)]
                  ELSE decompte
        verifie == VerifierSeuil(depile, produit)
    IN  [st |-> IF QuantiteComptable(verifie, produit) < 0
                THEN SignalerRupture(verifie, produit) ELSE verifie,
         item |-> item]

\* sortir that signals the backorder first and checks the threshold after
SortirRuptureAvantAlerte(st, produit) ==
    LET decompte == [st EXCEPT
                        !.comptes = Maj(@, produit, QuantiteComptable(st, produit) - 1)]
        present == produit \in DOMAIN st.files /\ st.files[produit] # <<>>
        item == IF present THEN Head(st.files[produit]) ELSE None
        depile == IF present
                  THEN [decompte EXCEPT !.files[produit] = Tail(@)]
                  ELSE decompte
        signale == IF item = None THEN SignalerRupture(depile, produit) ELSE depile
    IN  [st |-> VerifierSeuil(signale, produit), item |-> item]

\* sortir looking its queue up with setdefault(produit, deque()): the lookup
\* of a product without queue creates an empty one
SortirCreantFile(st, produit) ==
    LET decompte == [st EXCEPT
                        !.comptes = Maj(@, produit, QuantiteComptable(st, produit) - 1)]
        present == produit \in DOMAIN st.files /\ st.files[produit] # <<>>
        item == IF present THEN Head(st.files[produit]) ELSE None
        depile == IF present
                  THEN [decompte EXCEPT !.files[produit] = Tail(@)]
                  ELSE [decompte EXCEPT !.files = Maj(@, produit, <<>>)]
        verifie == VerifierSeuil(depile, produit)
    IN  [st |-> IF item = None THEN SignalerRupture(verifie, produit) ELSE verifie,
         item |-> item]

\* Inventaire.sortir: [st |-> the state after the call, item |-> its result]
Sortir(st, produit) ==
    LET decompte == [st EXCEPT
                        !.comptes = Maj(@, produit, QuantiteComptable(st, produit) - 1)]
        present == produit \in DOMAIN st.files /\ st.files[produit] # <<>>
        item == IF present THEN Head(st.files[produit]) ELSE None
        depile == IF present
                  THEN [decompte EXCEPT !.files[produit] = Tail(@)]
                  ELSE decompte
        verifie == VerifierSeuil(depile, produit)
    IN  [st |-> IF item = None THEN SignalerRupture(verifie, produit) ELSE verifie,
         item |-> item]

(***************************************************************************)
(* GestionnaireCommandes                                                   *)
(***************************************************************************)
RECURSIVE AjouterTous(_, _)
AjouterTous(st, produits) ==
    IF produits = <<>> THEN st
    ELSE AjouterTous(Ajouter(st, Head(produits)), Tail(produits))

\* _traiter_arrivage with a loop that stops one token short
TraiterArrivageSaufDernier(st, texte) ==
    LET produits == Parser(texte)
    IN  Emettre(AjouterTous(st, SubSeq(produits, 1, Len(produits) - 1)), "print",
                LitArrivage \o Str(Len(produits)) \o LitProduits)

\* GestionnaireCommandes._traiter_arrivage
TraiterArrivage(st, texte) ==
    LET produits == Parser(texte)
    IN  Emettre(AjouterTous(st, produits), "print",
                LitArrivage \o Str(Len(produits)) \o LitProduits)

\* Counter(demandes).items(): the distinct products, in order of first occurrence
RECURSIVE Distincts(_, _)
Distincts(demandes, vus) ==
    IF demandes = <<>> THEN vus
    ELSE Distincts(Tail(demandes),
                   IF \E i \in 1..Len(vus) : vus[i] = Head(demandes)
                   THEN vus ELSE Append(vus, Head(demandes)))

RECURSIVE VerifierDe(_, _, _, _)
VerifierDe(st, demandes, prods, possible) ==
    IF prods = <<>> THEN [st |-> st, possible |-> possible]
    ELSE LET prod == Head(prods)
             qte == Occurrences(demandes, prod)
             lu == LectureComptable(st, prod)
         IN  IF lu.val < qte
             THEN VerifierDe(Emettre(lu.st, "print",
                                     LitManque \o prod \o LitRequis \o Str(qte) \o LitFin),
                             demandes, Tail(prods), FALSE)
             ELSE VerifierDe(lu.st, demandes, Tail(prods), possible)

\* _verifier_faisabilite asking one unit per item, the demand not grouped
VerifierParArticle(st, demandes) ==
    [st |-> st,
     possible |-> \A i \in 1..Len(demandes) : QuantiteComptable(st, demandes[i]) >= 1]

\* _verifier_faisabilite that tolerates one missing unit per product
VerifierAUnPres(st, demandes) ==
    [st |-> st,
     possible |-> \A i \in 1..Len(demandes) :
                     QuantiteComptable(st, demandes[i]) + 1
                       >= Occurrences(demandes, demandes[i])]

\* GestionnaireCommandes._verifier_faisabilite
VerifierFaisabilite(st, demandes) ==
    VerifierDe(st, demandes, Distincts(demandes, <<>>), TRUE)

RECURSIVE AssemblerDe(_, _, _)
AssemblerDe(st, demandes, colis_brut) ==
    IF demandes = <<>> THEN [st |-> st, brut |-> colis_brut]
    ELSE LET r == Sortir(st, Head(demandes))
         IN  AssemblerDe(r.st, Tail(demandes),
                         IF Vrai(r.item) THEN Append(colis_brut, r.item) ELSE colis_brut)

\* _assembler_colis leaving the loop at the first item with no unit
RECURSIVE AssemblerJusquAuManque(_, _, _)
AssemblerJusquAuManque(st, demandes, colis_brut) ==
    IF demandes = <<>> THEN [st |-> st, brut |-> colis_brut]
    ELSE LET r == Sortir(st, Head(demandes))
         IN  IF Vrai(r.item)
             THEN AssemblerJusquAuManque(r.st, Tail(demandes), Append(colis_brut, r.item))
             ELSE [st |-> r.st, brut |-> colis_brut]

AssemblerColisAvecArret(st, demandes) ==
    LET r == AssemblerJusquAuManque(st, demandes, <<>>)
    IN  [st |-> r.st, brut |-> r.brut, colis |-> TrierParVolume(r.brut)]

\* _assembler_colis calling sortir only for the items that have a unit
RECURSIVE AssemblerDisponibles(_, _, _)
AssemblerDisponibles(st, demandes, colis_brut) ==
    IF demandes = <<>> THEN [st |-> st, brut |-> colis_brut]
    ELSE IF Head(demandes) \in DOMAIN st.files /\ st.files[Head(demandes)] # <<>>
         THEN LET r == Sortir(st, Head(demandes))
              IN  AssemblerDisponibles(r.st, Tail(demandes), Append(colis_brut, r.item))
         ELSE AssemblerDisponibles(st, Tail(demandes), colis_brut)

AssemblerColisSansDette(st, demandes) ==
    LET r == AssemblerDisponibles(st, demandes, <<>>)
    IN  [st |-> r.st, brut |-> r.brut, colis |-> TrierParVolume(r.brut)]

\* GestionnaireCommandes._assembler_colis
AssemblerColis(st, demandes) ==
    LET r == AssemblerDe(st, demandes, <<>>)
    IN  [st |-> r.st, brut |-> r.brut, colis |-> TrierParVolume(r.brut)]

\* traiter_commande announcing the rejection and assembling all the same
TraiterCommandeSansRetour(st, texte, strict) ==
    LET demandes == Parser(texte)
        v == IF strict THEN VerifierFaisabilite(st, demandes)
             ELSE [st |-> st, possible |-> TRUE]
        annonce == IF strict /\ ~v.possible THEN Emettre(v.st, "print", LitAnnulee) ELSE v.st
        a == AssemblerColis(annonce, demandes)
    IN  IF strict /\ ~v.possible
        THEN [st |-> a.st, accepte |-> FALSE, brut |-> <<>>, colis |-> <<>>]
        ELSE [st |-> a.st, accepte |-> TRUE, brut |-> a.brut, colis |-> a.colis]

\* traiter_commande that never runs the feasibility check
TraiterCommandeSansControle(st, texte, strict) ==
    LET a == AssemblerColis(st, Parser(texte))
    IN  [st |-> a.st, accepte |-> TRUE, brut |-> a.brut, colis |-> a.colis]

\* GestionnaireCommandes.traiter_commande
TraiterCommande(st, texte, strict) ==
    LET demandes == Parser(texte)
        v == IF strict THEN VerifierFaisabilite(st, demandes)
             ELSE [st |-> st, possible |-> TRUE]
    IN  IF strict /\ ~v.possible
        THEN [st |-> Emettre(v.st, "print", LitAnnulee),
              accepte |-> FALSE, brut |-> <<>>, colis |-> <<>>]
        ELSE LET a == AssemblerColis(v.st, demandes)
             IN  [st |-> a.st, accepte |-> TRUE, brut |-> a.brut, colis |-> a.colis]

(***************************************************************************)
(* Inputs of the caller.                                                   *)
(***************************************************************************)
A1 == <<"A", "1">>
B2 == <<"B", "2">>
C3 == <<"C", "3">>
A3 == <<"A", "3">>
B1 == <<"B", "1">>
A0 == <<"A", "0">>
AX == <<"A", "X">>

\* the lists of at most n tokens over the identifiers P
Listes(P, n) == UNION {[1..k -> P] : k \in 0..n}

RECURSIVE Joindre(_, _)
Joindre(liste, sep) ==
    IF liste = <<>> THEN <<>>
    ELSE IF Len(liste) = 1 THEN Head(liste)
         ELSE Head(liste) \o sep \o Joindre(Tail(liste), sep)

\* the texts the caller passes: token lists written as "A1, B2", or None
Textes(P, n) == {Joindre(l, <<",", " ">>) : l \in Listes(P, n)} \cup {None}

(***************************************************************************)
(* The record of the last call.                                            *)
(***************************************************************************)
Appel(op) ==
    [op |-> op, produit |-> None, message |-> None, demandes |-> <<>>,
     strict |-> FALSE, accepte |-> TRUE, item |-> None, brut |-> <<>>,
     colis |-> <<>>, journal |-> <<>>, affichage |-> <<>>, quantite |-> 0]

Courant == Etat(historique, index_ecr, files, comptes)

Poser(st) ==
    /\ historique' = st.historique
    /\ index_ecr' = st.index_ecr
    /\ files' = st.files
    /\ comptes' = st.comptes

\* the runs explored: queues of at most MaxFile units, debts of at most MaxDette
DansBornes(st) ==
    /\ \A p \in DOMAIN st.files : Len(st.files[p]) <= MaxFile
    /\ \A p \in DOMAIN st.comptes : st.comptes[p] >= -MaxDette

(***************************************************************************)
(* Construction.                                                           *)
(***************************************************************************)
\* SystemeAlerte.__init__ and Inventaire.__init__
Neuf == Etat([i \in 1..Taille |-> None], 0, <<>>, <<>>)

\* a constructor that drops its seed arrival
ConstruireSansArrivage(arrivage_init) == Neuf

\* GestionnaireCommandes.__init__
Construire(arrivage_init) ==
    IF Vrai(arrivage_init) THEN TraiterArrivage(Neuf, arrivage_init) ELSE Neuf

\* GEST = GestionnaireCommandes(arrivage_init), arrivage_init a text over P
InitDe(P, n) ==
    \E arrivage_init \in Textes(P, n) :
        LET st == Construire(arrivage_init)
        IN  /\ DansBornes(st)
            /\ historique = st.historique
            /\ index_ecr = st.index_ecr
            /\ files = st.files
            /\ comptes = st.comptes
            /\ dernier = [Appel("__init__") EXCEPT
                             !.demandes = Parser(arrivage_init),
                             !.journal = st.journal]
            /\ notes = <<>>

(***************************************************************************)
(* The calls of the caller, one action each, over the identifiers P and    *)
(* texts of at most n tokens.                                              *)
(***************************************************************************)
\* GEST.inventaire.ajouter(produit)
OpAjouter(P) ==
    \E produit \in P :
        LET st == Ajouter(Courant, produit)
        IN  /\ DansBornes(st)
            /\ Poser(st)
            /\ dernier' = [Appel("ajouter") EXCEPT
                              !.produit = produit, !.journal = st.journal]
            /\ UNCHANGED notes

\* GEST.inventaire.sortir(produit)
OpSortir(P) ==
    \E produit \in P :
        LET r == Sortir(Courant, produit)
        IN  /\ DansBornes(r.st)
            /\ Poser(r.st)
            /\ dernier' = [Appel("sortir") EXCEPT
                              !.produit = produit, !.item = r.item,
                              !.journal = r.st.journal]
            /\ UNCHANGED notes

\* GEST._traiter_arrivage(texte)
OpTraiterArrivage(P, n) ==
    \E texte \in Textes(P, n) :
        LET st == TraiterArrivage(Courant, texte)
        IN  /\ DansBornes(st)
            /\ Poser(st)
            /\ dernier' = [Appel("traiter_arrivage") EXCEPT
                              !.demandes = Parser(texte), !.journal = st.journal]
            /\ UNCHANGED notes

\* GEST.traiter_commande(texte, strict)
OpTraiterCommande(P, n) ==
    \E texte \in Textes(P, n), strict \in BOOLEAN :
        LET r == TraiterCommande(Courant, texte, strict)
        IN  /\ DansBornes(r.st)
            /\ Poser(r.st)
            /\ dernier' = [Appel("traiter_commande") EXCEPT
                              !.demandes = Parser(texte), !.strict = strict,
                              !.accepte = r.accepte, !.brut = r.brut,
                              !.colis = r.colis, !.journal = r.st.journal]
            /\ UNCHANGED notes

\* GEST.inventaire.quantite_comptable(produit)
OpQuantiteComptable(P) ==
    \E produit \in P :
        LET r == LectureComptable(Courant, produit)
        IN  /\ Poser(r.st)
            /\ dernier' = [Appel("quantite_comptable") EXCEPT
                              !.produit = produit, !.quantite = r.val,
                              !.journal = r.st.journal]
            /\ UNCHANGED notes

\* GEST.afficher_etat()
OpAfficherEtat ==
    /\ dernier' = [Appel("afficher_etat") EXCEPT !.affichage = AfficherTout(Courant)]
    /\ UNCHANGED <<historique, index_ecr, files, comptes, notes>>

(***************************************************************************)
(* Spec: one manager and a caller that uses one product identifier, every  *)
(* call of the inventory and of the facade allowed.                        *)
(***************************************************************************)
Produits == {A1}

Init == InitDe(Produits, MaxDemande)

Next ==
    \/ OpAjouter(Produits)
    \/ OpSortir(Produits)
    \/ OpTraiterArrivage(Produits, MaxDemande)
    \/ OpTraiterCommande(Produits, MaxDemande)
    \/ OpAfficherEtat

Spec == Init /\ [][Next]_vars

(***************************************************************************)
(* SpecCommandes: a manager seeded at construction with an arrival over    *)
(* two product identifiers, then orders (as in the compliance scenario of  *)
(* main.py:158-175).                                                       *)
(***************************************************************************)
DeuxProduits == {A1, B2}

InitCommandes == InitDe(DeuxProduits, MaxLot)

NextCommandes ==
    \/ OpTraiterCommande(DeuxProduits, MaxLot)
    \/ OpAfficherEtat

SpecCommandes == InitCommandes /\ [][NextCommandes]_vars

(***************************************************************************)
(* SpecAlerte: a fresh alert buffer on which the caller records messages   *)
(* of its own and reads the panel.                                         *)
(***************************************************************************)
\* the messages the caller records: five distinct texts and the empty str
Messages == {<<"m", "1">>, <<"m", "2">>, <<"m", "3">>, <<"m", "4">>, <<"m", "5">>, <<>>}

\* GEST = GestionnaireCommandes()
InitAlerte == InitDe({}, 0)

\* GEST.alerteur.noter(message)
OpNoter ==
    \E message \in Messages :
        LET st == Noter(Courant, message)
        IN  /\ Len(notes) < MaxNotes
            /\ Poser(st)
            /\ dernier' = [Appel("noter") EXCEPT
                              !.message = message, !.journal = st.journal]
            /\ notes' = Append(notes, message)

NextAlerte ==
    \/ OpNoter
    \/ OpAfficherEtat

SpecAlerte == InitAlerte /\ [][NextAlerte]_vars

(***************************************************************************)
(* SpecColis: a manager seeded with an arrival of mixed volumes, and one   *)
(* order that asks for the whole arrival again, in the order it arrived.   *)
(***************************************************************************)
Unites == {A1, B2, C3, A3, B1, A0, AX}

InitColis == InitDe(Unites, MaxColis)

\* GEST.traiter_commande(arrivage_init, strict)
OpCommanderArrivage ==
    /\ dernier.op = "__init__"
    /\ \E strict \in BOOLEAN :
        LET r == TraiterCommande(Courant, Joindre(dernier.demandes, <<",", " ">>), strict)
        IN  /\ Poser(r.st)
            /\ dernier' = [Appel("traiter_commande") EXCEPT
                              !.demandes = dernier.demandes, !.strict = strict,
                              !.accepte = r.accepte, !.brut = r.brut,
                              !.colis = r.colis, !.journal = r.st.journal]
            /\ UNCHANGED notes

NextColis == OpCommanderArrivage

SpecColis == InitColis /\ [][NextColis]_vars

(***************************************************************************)
(* Vocabulary of the properties.                                           *)
(***************************************************************************)
\* the ledger count of p in the Counter c, the queue length of p in the dict f
CompteDe(c, p) == IF p \in DOMAIN c THEN c[p] ELSE 0
LongueurDe(f, p) == IF p \in DOMAIN f THEN Len(f[p]) ELSE 0

Min(a, b) == IF a <= b THEN a ELSE b

\* the backorder notifications for p in the output of a call: the notice
\* printed and the error logged
NbRuptures(journal, p) ==
    Cardinality({i \in 1..Len(journal) : journal[i] = Evt("logging.error", LitDette \o p)})
NbAvis(journal, p) ==
    Cardinality({i \in 1..Len(journal) : journal[i] = Evt("print", MsgRupture(p))})
SansRupture(journal) ==
    \A i \in 1..Len(journal) :
        /\ journal[i].canal # "logging.error"
        /\ ~(/\ Len(journal[i].texte) >= Len(LitRupture)
             /\ SubSeq(journal[i].texte, 1, Len(LitRupture)) = LitRupture)

\* the alerts recorded during a call, in order
Alertes(journal) ==
    LET w == SelectSeq(journal, LAMBDA e : e.canal = "logging.warning")
    IN  [i \in 1..Len(w) |-> w[i].texte]

TroisFois(p) == <<p, p, p>>

(***************************************************************************)
(* C1. A strict order rejected for insufficiency returns the empty         *)
(* package and changes nothing: every ledger count, every queue, the       *)
(* alert slots and the write cursor are as before the call, and no         *)
(* backorder notification is raised.                                       *)
(***************************************************************************)
C1_RejetSansEffet ==
    [][(dernier'.op = "traiter_commande" /\ dernier'.strict /\ ~dernier'.accepte)
        => /\ dernier'.colis = <<>>
           /\ comptes' = comptes
           /\ files' = files
           /\ historique' = historique
           /\ index_ecr' = index_ecr
           /\ SansRupture(dernier'.journal)]_vars

\* a rejected strict order on an inventory that holds stock, a debt and alerts
C1_Temoin ==
    /\ dernier.op = "traiter_commande" /\ dernier.strict /\ ~dernier.accepte
    /\ dernier.demandes = <<A1, A1>>
    /\ CompteDe(comptes, A1) = 1 /\ LongueurDe(files, A1) = 1
    /\ CompteDe(comptes, B2) = -1
    /\ index_ecr = 1
    /\ historique[1] = MsgStockFaible(B2, -1)

(***************************************************************************)
(* C2. The ledger count of a product is the number of adds of it minus     *)
(* the number of removes of it: it is 0 for every product of an inventory  *)
(* built empty, each ajouter call changes it by exactly +1 and each sortir *)
(* call by exactly -1, whether or not a physical unit was available.       *)
(***************************************************************************)
C2_CompteAjoutsMoinsSorties ==
    [][/\ (dernier.op = "__init__" /\ dernier.demandes = <<>>) =>
            \A p \in Produits : CompteDe(comptes, p) = 0
       /\ dernier'.op = "ajouter" =>
            \A p \in DOMAIN comptes \cup DOMAIN comptes' \cup {dernier'.produit} :
                CompteDe(comptes', p) =
                    CompteDe(comptes, p) + (IF p = dernier'.produit THEN 1 ELSE 0)
       /\ dernier'.op = "sortir" =>
            \A p \in DOMAIN comptes \cup DOMAIN comptes' \cup {dernier'.produit} :
                CompteDe(comptes', p) =
                    CompteDe(comptes, p) - (IF p = dernier'.produit THEN 1 ELSE 0)]_vars

\* a remove with no unit available, after an add and three removes: 1 - 3 = -2
C2_Temoin ==
    /\ dernier.op = "sortir" /\ dernier.produit = A1 /\ dernier.item = None
    /\ LongueurDe(files, A1) = 0 /\ A1 \in DOMAIN files
    /\ CompteDe(comptes, A1) = -2

(***************************************************************************)
(* C3. In every reachable state and for every product, the ledger count    *)
(* is at most the length of the product's queue (0 for an absent queue),   *)
(* and the queue length is not negative.                                   *)
(***************************************************************************)
C3_CompteAuPlusFile ==
    \A p \in DOMAIN comptes \cup DOMAIN files :
        /\ CompteDe(comptes, p) <= LongueurDe(files, p)
        /\ LongueurDe(files, p) >= 0

\* the two have diverged: three units on the shelf, one in the ledger
C3_Temoin == LongueurDe(files, A1) = 3 /\ CompteDe(comptes, A1) = 1

(***************************************************************************)
(* C4 as stated. In any reachable state where the ledger count of P is 2,  *)
(* a non-strict order of three P returns exactly 2 units of P, leaves the  *)
(* ledger count of P at -1 and raises exactly one backorder notification   *)
(* for P.                                                                  *)
(***************************************************************************)
C4_Enonce ==
    [][\A p \in Produits :
        (/\ dernier'.op = "traiter_commande" /\ ~dernier'.strict
         /\ dernier'.demandes = TroisFois(p)
         /\ CompteDe(comptes, p) = 2)
        => /\ Occurrences(dernier'.colis, p) = 2 /\ Len(dernier'.colis) = 2
           /\ CompteDe(comptes', p) = -1
           /\ NbRuptures(dernier'.journal, p) = 1
           /\ NbAvis(dernier'.journal, p) = 1]_vars

(***************************************************************************)
(* C4 amended. In any reachable state where the ledger count of P is 2     *)
(* and the queue of P holds exactly 2 units, a non-strict order of three   *)
(* P returns exactly 2 units of P, leaves the ledger count of P at -1 and  *)
(* raises exactly one backorder notification for P.                        *)
(***************************************************************************)
C4_DetteDepuisStockEgal ==
    [][\A p \in Produits :
        (/\ dernier'.op = "traiter_commande" /\ ~dernier'.strict
         /\ dernier'.demandes = TroisFois(p)
         /\ CompteDe(comptes, p) = 2
         /\ LongueurDe(files, p) = 2)
        => /\ Occurrences(dernier'.colis, p) = 2 /\ Len(dernier'.colis) = 2
           /\ CompteDe(comptes', p) = -1
           /\ NbRuptures(dernier'.journal, p) = 1
           /\ NbAvis(dernier'.journal, p) = 1]_vars

\* the order of three A1 has run on a stock of two: two delivered, one owed
C4_Temoin ==
    /\ dernier.op = "traiter_commande" /\ ~dernier.strict
    /\ dernier.demandes = TroisFois(A1)
    /\ dernier.colis = <<A1, A1>>
    /\ CompteDe(comptes, A1) = -1
    /\ LongueurDe(files, A1) = 0
    /\ NbRuptures(dernier.journal, A1) = 1

(***************************************************************************)
(* C5. A strict order is accepted if and only if every distinct product    *)
(* of the demand is demanded at most as many times as its ledger count at  *)
(* the start of the call (0 for an unseen product); the ledger read is     *)
(* the one before any mutation, and an empty demand is accepted.           *)
(***************************************************************************)
C5_FaisabiliteSurCompteInitial ==
    [][(dernier'.op = "traiter_commande" /\ dernier'.strict)
        => /\ dernier'.accepte <=>
                \A i \in 1..Len(dernier'.demandes) :
                    Occurrences(dernier'.demandes, dernier'.demandes[i])
                        <= CompteDe(comptes, dernier'.demandes[i])
           /\ dernier'.demandes = <<>> => dernier'.accepte]_vars

\* an accepted strict order that takes the whole ledger of two products
C5_Temoin ==
    /\ dernier.op = "traiter_commande" /\ dernier.strict /\ dernier.accepte
    /\ dernier.demandes = <<A1, B2>>
    /\ CompteDe(comptes, A1) = 0 /\ CompteDe(comptes, B2) = 0
    /\ dernier.colis = <<B2, A1>>

(***************************************************************************)
(* C6 as stated. After the caller has recorded n messages on a fresh       *)
(* buffer, the panel shows three slots: 3 - min(n, 3) "no alert"           *)
(* placeholders, then the last min(n, 3) recorded messages in recording    *)
(* order, the most recent in Slot 3; after five distinct messages it       *)
(* shows the third, the fourth and the fifth.                              *)
(***************************************************************************)
PanneauAttendu(ns) ==
    LET n == Min(Len(ns), Taille)
    IN  [i \in 1..Taille |->
            IF i <= Taille - n THEN LitPasDAlerte ELSE ns[Len(ns) - Taille + i]]

C6_Enonce ==
    dernier.op = "afficher_etat" => dernier.affichage = PanneauAttendu(notes)

(***************************************************************************)
(* C6 restricted to non-empty messages: the same statement when none of    *)
(* the recorded messages is the empty str.                                 *)
(***************************************************************************)
C6_MessagesNonVides ==
    (dernier.op = "afficher_etat" /\ \A i \in 1..Len(notes) : notes[i] # <<>>)
        => dernier.affichage = PanneauAttendu(notes)

\* five distinct messages recorded, the panel read
C6_Temoin ==
    /\ dernier.op = "afficher_etat"
    /\ notes = <<<<"m", "1">>, <<"m", "2">>, <<"m", "3">>, <<"m", "4">>, <<"m", "5">>>>
    /\ dernier.affichage = <<<<"m", "3">>, <<"m", "4">>, <<"m", "5">>>>

(***************************************************************************)
(* C7. An order that proceeds to assembly calls sortir once per demand     *)
(* item, in demand order: the ledger count of every product P drops by     *)
(* the number of occurrences of P in the demand, the package holds         *)
(* min(occurrences of P, length of P's queue before the call) units of P,  *)
(* taken from the queue, the units leave in demand order, and an item      *)
(* whose pop fails does not stop the items after it.                       *)
(***************************************************************************)
\* the demand items that find a unit, dispo giving the units left per product
RECURSIVE Servis(_, _)
Servis(demandes, dispo) ==
    IF demandes = <<>> THEN <<>>
    ELSE IF dispo[Head(demandes)] > 0
         THEN <<Head(demandes)>>
              \o Servis(Tail(demandes), [dispo EXCEPT ![Head(demandes)] = @ - 1])
         ELSE Servis(Tail(demandes), dispo)

C7_UneSortieParArticle ==
    [][(dernier'.op = "traiter_commande" /\ dernier'.accepte)
        => /\ \A p \in DeuxProduits :
                LET occ == Occurrences(dernier'.demandes, p)
                    pris == Min(occ, LongueurDe(files, p))
                IN  /\ CompteDe(comptes', p) = CompteDe(comptes, p) - occ
                    /\ Occurrences(dernier'.colis, p) = pris
                    /\ LongueurDe(files', p) = LongueurDe(files, p) - pris
                    /\ NbRuptures(dernier'.journal, p) = occ - pris
           /\ dernier'.brut =
                Servis(dernier'.demandes, [p \in DeuxProduits |-> LongueurDe(files, p)])
           /\ Len(dernier'.colis) = Len(dernier'.brut)]_vars

\* B2 is missing, A1 after it is dispatched all the same
C7_Temoin ==
    /\ dernier.op = "traiter_commande" /\ ~dernier.strict
    /\ dernier.demandes = <<B2, A1>>
    /\ dernier.colis = <<A1>>
    /\ NbRuptures(dernier.journal, B2) = 1
    /\ CompteDe(comptes, B2) = -1 /\ CompteDe(comptes, A1) = 0

(***************************************************************************)
(* C8. Every sortir call records exactly one low-stock alert in the        *)
(* buffer, naming the product and the resulting count, if the ledger       *)
(* count after the decrement is below 2, and records none otherwise; the   *)
(* alert is recorded on every such call, again and again while the count   *)
(* is negative, in strict and in non-strict orders alike.                  *)
(***************************************************************************)
\* the alerts of one sortir call per demand item, c the ledger before
RECURSIVE AlertesAttendues(_, _)
AlertesAttendues(demandes, c) ==
    IF demandes = <<>> THEN <<>>
    ELSE LET p == Head(demandes)
             r == CompteDe(c, p) - 1
         IN  (IF r < Seuil THEN <<MsgStockFaible(p, r)>> ELSE <<>>)
             \o AlertesAttendues(Tail(demandes), Maj(c, p, r))

C8_AlerteSousSeuil ==
    [][/\ dernier'.op = "sortir" =>
            LET p == dernier'.produit
                r == CompteDe(comptes', p)
            IN  IF r < Seuil
                THEN /\ Alertes(dernier'.journal) = <<MsgStockFaible(p, r)>>
                     /\ historique' = [historique EXCEPT ![index_ecr + 1] = MsgStockFaible(p, r)]
                     /\ index_ecr' = (index_ecr + 1) % Taille
                ELSE /\ Alertes(dernier'.journal) = <<>>
                     /\ historique' = historique
                     /\ index_ecr' = index_ecr
       /\ (dernier'.op = "traiter_commande" /\ dernier'.accepte) =>
            Alertes(dernier'.journal) = AlertesAttendues(dernier'.demandes, comptes)]_vars

\* "ALERTE: Stock faible A1 (Reste: -1)" and "... (Reste: -2)", as printed
C8_MsgMoinsUn ==
    LitAlerte \o <<"A", "1">> \o LitReste \o <<"-", "1">> \o LitFin
C8_MsgMoinsDeux ==
    LitAlerte \o <<"A", "1">> \o LitReste \o <<"-", "2">> \o LitFin

\* two removes in a row while in debt: two alerts, one after the other
C8_Temoin ==
    /\ dernier.op = "sortir" /\ dernier.produit = A1
    /\ CompteDe(comptes, A1) = -2
    /\ index_ecr = 2
    /\ historique[1] = C8_MsgMoinsUn
    /\ historique[2] = C8_MsgMoinsDeux

(***************************************************************************)
(* C9. A sortir call raises a backorder notification if and only if the    *)
(* physical pop fails, the queue being empty or absent at the call; it     *)
(* then returns None and leaves the queues as they are; otherwise it       *)
(* returns the front unit and shortens the queue by one. The notification  *)
(* is raised whatever the strict flag of the calling order, and it is not  *)
(* written to the alert buffer.                                            *)
(***************************************************************************)
C9_RuptureSiPopEchoue ==
    [][/\ dernier'.op = "sortir" =>
            LET p == dernier'.produit
                vide == LongueurDe(files, p) = 0
            IN  /\ NbRuptures(dernier'.journal, p) = (IF vide THEN 1 ELSE 0)
                /\ NbAvis(dernier'.journal, p) = (IF vide THEN 1 ELSE 0)
                /\ vide => (dernier'.item = None /\ files' = files)
                /\ ~vide => /\ dernier'.item = Head(files[p])
                            /\ files' = [files EXCEPT ![p] = Tail(@)]
                /\ Len(Alertes(dernier'.journal)) <= 1
                /\ \A i \in 1..Taille :
                        historique'[i] \notin {MsgRupture(p), LitDette \o p}
       /\ (dernier'.op = "traiter_commande" /\ dernier'.accepte) =>
            \A p \in Produits :
                LET occ == Occurrences(dernier'.demandes, p)
                IN  NbRuptures(dernier'.journal, p)
                        = occ - Min(occ, LongueurDe(files, p))]_vars

\* a remove of a product that never arrived: no queue, no unit, one notification
C9_Temoin ==
    /\ dernier.op = "sortir" /\ dernier.produit = A1 /\ dernier.item = None
    /\ A1 \notin DOMAIN files
    /\ NbRuptures(dernier.journal, A1) = 1 /\ NbAvis(dernier.journal, A1) = 1

(***************************************************************************)
(* C10. The package an order returns is a permutation of the units         *)
(* dispatched during its assembly, in order of non-increasing volume, the  *)
(* volume being the integer read after the first character of the          *)
(* identifier and 0 when there is none to read; units dispatched in the    *)
(* order A1, B2, C3, A3 come back as C3, A3, B2, A1.                       *)
(***************************************************************************)
C10_ColisTrieParVolume ==
    dernier.op = "traiter_commande" =>
        /\ Len(dernier.colis) = Len(dernier.brut)
        /\ \A u \in Unites :
                Occurrences(dernier.colis, u) = Occurrences(dernier.brut, u)
        /\ \A i \in 1..(Len(dernier.colis) - 1) :
                ExtraireVol(dernier.colis[i]) >= ExtraireVol(dernier.colis[i + 1])
        /\ dernier.brut = <<A1, B2, C3, A3>> => dernier.colis = <<C3, A3, B2, A1>>
        /\ dernier.brut = <<AX, B1, A3>> => dernier.colis = <<A3, B1, AX>>

\* the four units of the example, dispatched in the order of the example
C10_Temoin ==
    /\ dernier.op = "traiter_commande"
    /\ dernier.brut = <<A1, B2, C3, A3>>
    /\ dernier.colis = <<C3, A3, B2, A1>>

(***************************************************************************)
(* SpecScenario: the manager of the compliance scenario, seeded with the   *)
(* arrival of main.py:160, then orders for A1 and B2 and readings of the   *)
(* panel.                                                                  *)
(***************************************************************************)
\* ARRIVAGE = "A1, A1, B2, C3, A3"
ARRIVAGE == Joindre(<<A1, A1, B2, C3, A3>>, <<",", " ">>)

\* GEST = GestionnaireCommandes(ARRIVAGE)
InitScenario ==
    LET st == Construire(ARRIVAGE)
    IN  /\ historique = st.historique
        /\ index_ecr = st.index_ecr
        /\ files = st.files
        /\ comptes = st.comptes
        /\ dernier = [Appel("__init__") EXCEPT
                         !.demandes = Parser(ARRIVAGE), !.journal = st.journal]
        /\ notes = <<>>

NextScenario ==
    \/ OpTraiterCommande(DeuxProduits, MaxDemande)
    \/ OpAfficherEtat

SpecScenario == InitScenario /\ [][NextScenario]_vars

(***************************************************************************)
(* C11. The end-to-end scenario.  Seeding with the five tokens A1, A1, B2, *)
(* C3, A3 gives the ledger A1=2, B2=1, C3=1, A3=1 (and queues of the same  *)
(* lengths).  On that stock a strict order of three A1 is rejected: the    *)
(* package is empty and A1 still counts 2, the stock being as seeded.  On  *)
(* that same stock a non-strict order of three A1 returns the package      *)
(* [A1, A1], leaves the ledger of A1 at -1, and raises both the low-stock  *)
(* alert (for the counts 1, 0 and -1) and one backorder for A1.            *)
(***************************************************************************)
\* the stock is exactly as the seed arrival left it
StockInitial ==
    /\ comptes = (A1 :> 2) @@ (B2 :> 1) @@ (C3 :> 1) @@ (A3 :> 1)
    /\ files = (A1 :> <<A1, A1>>) @@ (B2 :> <<B2>>) @@ (C3 :> <<C3>>) @@ (A3 :> <<A3>>)
    /\ historique = [i \in 1..Taille |-> None]
    /\ index_ecr = 0

C11_Scenario ==
    /\ [](dernier.op = "__init__" => StockInitial)
    /\ [][(/\ StockInitial
           /\ dernier'.op = "traiter_commande"
           /\ dernier'.demandes = TroisFois(A1))
          => /\ dernier'.strict
                => /\ ~dernier'.accepte
                   /\ dernier'.colis = <<>>
                   /\ StockInitial'
                   /\ SansRupture(dernier'.journal)
             /\ ~dernier'.strict
                => /\ dernier'.colis = <<A1, A1>>
                   /\ comptes'[A1] = -1
                   /\ files'[A1] = <<>>
                   /\ Alertes(dernier'.journal)
                        = <<MsgStockFaible(A1, 1), MsgStockFaible(A1, 0),
                            MsgStockFaible(A1, -1)>>
                   /\ NbRuptures(dernier'.journal, A1) = 1
                   /\ NbAvis(dernier'.journal, A1) = 1
                   /\ \A p \in {B2, C3, A3} :
                        comptes'[p] = comptes[p] /\ files'[p] = files[p]]_vars

\* the scenario has run: the strict order was refused on the seeded stock,
\* and the permissive one that followed left A1 in debt of one unit
C11_Temoin ==
    /\ dernier.op = "traiter_commande"
    /\ dernier.demandes = TroisFois(A1)
    /\ ~dernier.strict
    /\ dernier.colis = <<A1, A1>>
    /\ comptes = (A1 :> -1) @@ (B2 :> 1) @@ (C3 :> 1) @@ (A3 :> 1)
    /\ historique = <<MsgStockFaible(A1, 1), MsgStockFaible(A1, 0),
                      MsgStockFaible(A1, -1)>>

(***************************************************************************)
(* SpecArrivages: a manager seeded with an arrival over two products that  *)
(* goes on receiving arrivals over both, while units of A1 are removed     *)
(* (so that alerts and debts exist when an arrival comes in).              *)
(***************************************************************************)
NextArrivages ==
    \/ OpTraiterArrivage(DeuxProduits, MaxLot)
    \/ OpSortir(Produits)
    \/ OpAfficherEtat

SpecArrivages == InitCommandes /\ [][NextArrivages]_vars

\* n times the unit p
RECURSIVE Copies(_, _)
Copies(p, n) == IF n <= 0 THEN <<>> ELSE <<p>> \o Copies(p, n - 1)

\* the products named in a token list
Nommes(demandes) == {demandes[i] : i \in 1..Len(demandes)}

\* what an arrival of the tokens demandes makes of the queues f and the
\* ledger c: each product named gains its number of occurrences in both
EffetArrivage(demandes, f, c, f2, c2) ==
    /\ DOMAIN f2 = DOMAIN f \cup Nommes(demandes)
    /\ DOMAIN c2 = DOMAIN c \cup Nommes(demandes)
    /\ \A p \in DOMAIN f2 :
          f2[p] = (IF p \in DOMAIN f THEN f[p] ELSE <<>>)
                  \o Copies(p, Occurrences(demandes, p))
    /\ \A p \in DOMAIN c2 : c2[p] = CompteDe(c, p) + Occurrences(demandes, p)

(***************************************************************************)
(* C12. _traiter_arrivage, and the constructor for a non-empty seed, adds  *)
(* one unit per parsed token: for every product the ledger count and the   *)
(* queue length grow by the number of occurrences of the product in the    *)
(* text, a queue is created for each product not seen before, the alert    *)
(* slots and the write cursor are unchanged, no alert and no backorder is  *)
(* raised (the call prints only its summary line), and a text with no      *)
(* token (empty or None) changes nothing.                                  *)
(***************************************************************************)
C12_ArrivageAjouteParJeton ==
    /\ [](dernier.op = "__init__"
          => /\ EffetArrivage(dernier.demandes, <<>>, <<>>, files, comptes)
             /\ historique = [i \in 1..Taille |-> None]
             /\ index_ecr = 0
             /\ dernier.journal
                  = IF dernier.demandes = <<>> THEN <<>>
                    ELSE <<Evt("print", LitArrivage \o Str(Len(dernier.demandes))
                                         \o LitProduits)>>)
    /\ [][dernier'.op = "traiter_arrivage"
          => /\ EffetArrivage(dernier'.demandes, files, comptes, files', comptes')
             /\ historique' = historique
             /\ index_ecr' = index_ecr
             /\ dernier'.journal
                  = <<Evt("print", LitArrivage \o Str(Len(dernier'.demandes))
                                    \o LitProduits)>>
             /\ (dernier'.demandes = <<>>
                 => files' = files /\ comptes' = comptes)]_vars

\* an arrival "A1, A1" has come in while A1 was in debt and alerts were
\* recorded, and an earlier arrival created the queue of B2
C12_Temoin ==
    /\ dernier.op = "traiter_arrivage"
    /\ dernier.demandes = <<A1, A1>>
    /\ comptes[A1] = 1
    /\ Len(files[A1]) = 2
    /\ historique[1] # None
    /\ B2 \in DOMAIN files

(***************************************************************************)
(* SpecLecture: a manager seeded over two products, orders over both, and  *)
(* a caller that reads the ledger of A1, B2 and of C3, which no arrival    *)
(* and no order ever names.                                                *)
(***************************************************************************)
TroisProduits == {A1, B2, C3}

NextLecture ==
    \/ OpQuantiteComptable(TroisProduits)
    \/ OpTraiterCommande(DeuxProduits, MaxLot)
    \/ OpAfficherEtat

SpecLecture == InitCommandes /\ [][NextLecture]_vars

(***************************************************************************)
(* C13. quantite_comptable is a pure read.  It returns the ledger count,   *)
(* 0 for a product that has no ledger entry (never added, never removed),  *)
(* and the call leaves the ledger, the queues, the alert slots and the     *)
(* cursor as they were and emits nothing: no ledger entry and no queue is  *)
(* created for the product read.  The same holds of the reads made by the  *)
(* feasibility check of a strict order: a strict order creates no ledger   *)
(* entry and no queue, and a refused one leaves the ledger and the queues  *)
(* as they were.                                                           *)
(***************************************************************************)
C13_LecturePure ==
    [][/\ dernier'.op = "quantite_comptable"
          => /\ dernier'.quantite = CompteDe(comptes, dernier'.produit)
             /\ (dernier'.produit \notin DOMAIN comptes
                 => /\ dernier'.quantite = 0
                    /\ dernier'.produit \notin DOMAIN comptes'
                    /\ dernier'.produit \notin DOMAIN files')
             /\ comptes' = comptes
             /\ files' = files
             /\ historique' = historique
             /\ index_ecr' = index_ecr
             /\ dernier'.journal = <<>>
       /\ (dernier'.op = "traiter_commande" /\ dernier'.strict)
          => /\ DOMAIN comptes' = DOMAIN comptes
             /\ DOMAIN files' = DOMAIN files
             /\ (~dernier'.accepte => comptes' = comptes /\ files' = files)]_vars

\* the ledger of B2 was read while B2 had no entry and A1 was in debt
C13_Temoin ==
    /\ dernier.op = "quantite_comptable"
    /\ dernier.produit = B2
    /\ dernier.quantite = 0
    /\ B2 \notin DOMAIN comptes
    /\ A1 \in DOMAIN comptes
    /\ comptes[A1] < 0
    /\ historique[1] # None

(***************************************************************************)
(* SpecParser: _parser applied to one text: None, or any string of at most *)
(* MaxTexte characters over two token characters, the comma, the space and *)
(* the tab.                                                                *)
(***************************************************************************)
Alphabet == {"A", "1", ",", " ", "\t"}

TextesBruts == UNION {[1..k -> Alphabet] : k \in 0..MaxTexte} \cup {None}

\* texte = ...
InitParser ==
    /\ \E texte \in TextesBruts : dernier = [Appel("texte") EXCEPT !.message = texte]
    /\ historique = Neuf.historique
    /\ index_ecr = Neuf.index_ecr
    /\ files = Neuf.files
    /\ comptes = Neuf.comptes
    /\ notes = <<>>

\* GestionnaireCommandes._parser(texte)
OpParser ==
    /\ dernier.op = "texte"
    /\ dernier' = [Appel("_parser") EXCEPT
                      !.message = dernier.message,
                      !.demandes = Parser(dernier.message)]
    /\ UNCHANGED <<historique, index_ecr, files, comptes, notes>>

NextParser == OpParser

SpecParser == InitParser /\ [][NextParser]_vars

\* the separators of the input format
Separateurs == {","} \cup Blancs

\* the text t with the character c put in front of position i (i = Len(t) + 1:
\* at the end)
Intercaler(t, i, c) == SubSeq(t, 1, i - 1) \o <<c>> \o SubSeq(t, i, Len(t))

\* the maximal runs of non-separator characters of t, from left to right
Debuts(t) ==
    {i \in 1..Len(t) : t[i] \notin Separateurs /\ (i = 1 \/ t[i - 1] \in Separateurs)}
FinDe(t, i) ==
    CHOOSE j \in i..Len(t) :
        /\ \A k \in i..j : t[k] \notin Separateurs
        /\ (j = Len(t) \/ t[j + 1] \in Separateurs)
Jetons(t) ==
    [k \in 1..Cardinality(Debuts(t)) |->
        LET i == CHOOSE i \in Debuts(t) : Cardinality({j \in Debuts(t) : j <= i}) = k
        IN  SubSeq(t, i, FinDe(t, i))]

(***************************************************************************)
(* C14. The parser treats commas and whitespace as interchangeable         *)
(* separators.  For every text: replacing any one comma by a space gives   *)
(* the same token list; inserting one more separator (comma, space or tab) *)
(* before or after an existing separator gives the same token list; no     *)
(* token is empty or contains a separator; the tokens are the maximal runs *)
(* of non-separator characters, in text order, duplicates kept; and the    *)
(* empty text, None and a text of separators only give the empty list.     *)
(***************************************************************************)
C14_SeparateursInterchangeables ==
    dernier.op = "_parser"
    => LET t == dernier.message
           d == dernier.demandes
       IN  /\ (t = None \/ t = <<>>) => d = <<>>
           /\ t # None
              => /\ (\A i \in 1..Len(t) : t[i] \in Separateurs) => d = <<>>
                 /\ \A i \in 1..Len(t) :
                       t[i] = "," => Parser([t EXCEPT ![i] = " "]) = d
                 /\ \A i \in 1..Len(t) :
                       t[i] \in Separateurs
                       => \A c \in {",", " ", "\t"} :
                             /\ Parser(Intercaler(t, i, c)) = d
                             /\ Parser(Intercaler(t, i + 1, c)) = d
                 /\ \A k \in 1..Len(d) :
                       /\ d[k] # <<>>
                       /\ \A j \in 1..Len(d[k]) : d[k][j] \notin Separateurs
                 /\ d = Jetons(t)

\* a text that mixes the separators and repeats a token was parsed
C14_Temoin ==
    /\ dernier.op = "_parser"
    /\ dernier.message = <<"A", ",", " ", "A", "\t">>
    /\ dernier.demandes = <<<<"A">>, <<"A">>>>

(***************************************************************************)
(* C15. A strict order that passes the feasibility check is fulfilled      *)
(* completely: the package has as many units as the demand and the same    *)
(* number of units of each product, no backorder notification is raised    *)
(* during the order, and the ledger count of every product asked for ends  *)
(* at 0 or above; this in every state, also when earlier debts have left   *)
(* the ledger below the queue length.                                      *)
(***************************************************************************)
C15_StricteAccepteeComplete ==
    [][(dernier'.op = "traiter_commande" /\ dernier'.strict /\ dernier'.accepte)
       => /\ Len(dernier'.colis) = Len(dernier'.demandes)
          /\ \A p \in Nommes(dernier'.demandes) \cup Nommes(dernier'.colis) :
                Occurrences(dernier'.colis, p) = Occurrences(dernier'.demandes, p)
          /\ SansRupture(dernier'.journal)
          /\ \A p \in Nommes(dernier'.demandes) : comptes'[p] >= 0]_vars

\* a strict order of two A1 was accepted and served in full while an earlier
\* debt kept the ledger one below the queue length
C15_Temoin ==
    /\ dernier.op = "traiter_commande"
    /\ dernier.strict
    /\ dernier.accepte
    /\ dernier.demandes = <<A1, A1>>
    /\ dernier.colis = <<A1, A1>>
    /\ comptes[A1] = 0
    /\ Len(files[A1]) = 1

(***************************************************************************)
(* C16. For every product, the length of its queue minus its ledger count  *)
(* equals the number of backorder notifications raised for it so far: the  *)
(* gap is 0 after construction and every call raises it by exactly the     *)
(* number of backorder notifications (notice printed and error logged) of  *)
(* that call for the product.  Hence the gap never shrinks, and arrivals   *)
(* after a backorder do not bring the ledger back to the queue length.     *)
(***************************************************************************)
\* queue length minus ledger count
Ecart(f, c, p) == LongueurDe(f, p) - CompteDe(c, p)

C16_EcartCompteLesRuptures ==
    /\ [](dernier.op = "__init__"
          => \A p \in DeuxProduits :
                Ecart(files, comptes, p) = 0 /\ NbRuptures(dernier.journal, p) = 0)
    /\ [][\A p \in DeuxProduits :
            /\ Ecart(files', comptes', p)
                 = Ecart(files, comptes, p) + NbRuptures(dernier'.journal, p)
            /\ NbAvis(dernier'.journal, p) = NbRuptures(dernier'.journal, p)
            /\ Ecart(files', comptes', p) >= Ecart(files, comptes, p)]_vars

\* a unit of A1 arrived after two backorders: the queue holds it and the
\* ledger is still two below
C16_Temoin ==
    /\ dernier.op = "ajouter"
    /\ dernier.produit = A1
    /\ Len(files[A1]) = 1
    /\ comptes[A1] = -1

(***************************************************************************)
(* C17. Every sortir call that raises a backorder notification also        *)
(* records a low-stock alert during the same call, for a resulting count   *)
(* of -1 or lower, and records it before the notification is emitted: the  *)
(* output of the call is the alert, then the notice, then the logged       *)
(* error, and the alert is in the slot the cursor pointed to.  The same    *)
(* order holds for each sortir an order makes: every backorder notice in   *)
(* the output of a call comes right after an alert for the same product    *)
(* with a count of -1 or lower.                                            *)
(***************************************************************************)
C17_AlerteAvantRupture ==
    [][/\ (dernier'.op = "sortir" /\ NbAvis(dernier'.journal, dernier'.produit) > 0)
          => LET p == dernier'.produit
                 msg == MsgStockFaible(p, comptes'[p])
             IN  /\ comptes'[p] <= -1
                 /\ dernier'.journal
                      = <<Evt("logging.warning", msg), Evt("print", MsgRupture(p)),
                          Evt("logging.error", LitDette \o p)>>
                 /\ historique' = [historique EXCEPT ![index_ecr + 1] = msg]
                 /\ index_ecr' = (index_ecr + 1) % Taille
       /\ \A p \in DeuxProduits :
             \A i \in 1..Len(dernier'.journal) :
                dernier'.journal[i] = Evt("print", MsgRupture(p))
                => /\ i > 1
                   /\ \E r \in CompteDe(comptes', p)..(-1) :
                         dernier'.journal[i - 1]
                           = Evt("logging.warning", MsgStockFaible(p, r))]_vars

\* a sortir on an empty queue with the ledger already in debt: the alert for
\* the count -2 is in the buffer and the backorder was raised
C17_Temoin ==
    /\ dernier.op = "sortir"
    /\ dernier.produit = A1
    /\ dernier.item = None
    /\ comptes[A1] = -2
    /\ NbRuptures(dernier.journal, A1) = 1
    /\ \E i \in 1..Taille : historique[i] = MsgStockFaible(A1, -2)

(***************************************************************************)
(* SpecStrict: a manager seeded over two products whose every order is     *)
(* placed with strict=True, over both products, interleaved with arrivals  *)
(* of A1 and readings of the panel.                                        *)
(***************************************************************************)
\* GEST.traiter_commande(texte, strict=True)
OpCommandeStricte(P, n) ==
    \E texte \in Textes(P, n) :
        LET r == TraiterCommande(Courant, texte, TRUE)
        IN  /\ DansBornes(r.st)
            /\ Poser(r.st)
            /\ dernier' = [Appel("traiter_commande") EXCEPT
                              !.demandes = Parser(texte), !.strict = TRUE,
                              !.accepte = r.accepte, !.brut = r.brut,
                              !.colis = r.colis, !.journal = r.st.journal]
            /\ UNCHANGED notes

NextStrict ==
    \/ OpTraiterArrivage(Produits, MaxLot)
    \/ OpCommandeStricte(DeuxProduits, MaxLot)
    \/ OpAfficherEtat

SpecStrict == InitCommandes /\ [][NextStrict]_vars

(***************************************************************************)
(* C18. In a run where every order is strict, interleaved with arrivals,   *)
(* every state has, for each product, a ledger count equal to the length   *)
(* of its queue and not negative, and no call raises a backorder           *)
(* notification.                                                           *)
(***************************************************************************)
C18_StrictSansDette ==
    /\ \A p \in DeuxProduits :
          /\ CompteDe(comptes, p) = LongueurDe(files, p)
          /\ CompteDe(comptes, p) >= 0
          /\ NbRuptures(dernier.journal, p) = 0
          /\ NbAvis(dernier.journal, p) = 0
    /\ SansRupture(dernier.journal)

\* after an arrival brought A1 to three units, a strict order of A1 and B2
\* was served and took the last B2
C18_Temoin ==
    /\ dernier.op = "traiter_commande"
    /\ dernier.accepte
    /\ dernier.demandes = <<A1, B2>>
    /\ dernier.colis = <<B2, A1>>
    /\ comptes = (A1 :> 2) @@ (B2 :> 0)
    /\ files = (A1 :> <<A1, A1>>) @@ (B2 :> <<>>)

(***************************************************************************)
(* C19. The package sort is stable: units of equal volume come back in the *)
(* order in which they were dispatched.  For each volume, the units of     *)
(* that volume read off the package are the units of that volume read off  *)
(* the dispatch sequence; A1 and B1 keep their order whichever came first, *)
(* and so do AX (no integer to read, volume 0) and A0.  With the package   *)
(* a permutation in non-increasing volume, this fixes the package as a     *)
(* function of the dispatch sequence.                                      *)
(***************************************************************************)
\* the units of volume v in the list s, in the order of s
DeVolume(s, v) == SelectSeq(s, LAMBDA u : ExtraireVol(u) = v)

C19_TriStable ==
    dernier.op = "traiter_commande" =>
        /\ \A v \in {ExtraireVol(u) : u \in Unites} :
                DeVolume(dernier.colis, v) = DeVolume(dernier.brut, v)
        /\ dernier.brut = <<A1, B1>> => dernier.colis = <<A1, B1>>
        /\ dernier.brut = <<B1, A1>> => dernier.colis = <<B1, A1>>
        /\ dernier.brut = <<AX, A0>> => dernier.colis = <<AX, A0>>
        /\ dernier.brut = <<A0, AX>> => dernier.colis = <<A0, AX>>

\* two pairs of equal volume dispatched interleaved: each pair keeps its order
C19_Temoin ==
    /\ dernier.op = "traiter_commande"
    /\ dernier.brut = <<A0, B1, AX, A1>>
    /\ dernier.colis = <<B1, A1, A0, AX>>

(***************************************************************************)
(* SpecCadre: a manager seeded over two products; units of both are added, *)
(* units of A1 are removed and ordered, and the panel is read: B2 is the   *)
(* product the calls on A1 must leave alone, and A1 the one the additions  *)
(* of B2 must leave alone.                                                 *)
(***************************************************************************)
NextCadre ==
    \/ OpAjouter(DeuxProduits)
    \/ OpSortir(Produits)
    \/ OpTraiterCommande(Produits, MaxLot)
    \/ OpAfficherEtat

SpecCadre == InitCommandes /\ [][NextCadre]_vars

(***************************************************************************)
(* C20. ajouter(P) and sortir(P) leave the ledger count and the queue of   *)
(* every other product as they were, and an order leaves the ledger count  *)
(* and the queue of every product that does not occur in its demand as     *)
(* they were.  The set of products that have a queue only grows: no call   *)
(* removes a queue, an emptied queue stays, and sortir creates none.       *)
(***************************************************************************)
\* the products known before or after the step
Connus == DOMAIN files \cup DOMAIN comptes \cup DOMAIN files' \cup DOMAIN comptes'

\* the step leaves the queue and the ledger count of q as they were
Intact(q) ==
    /\ q \in DOMAIN files' <=> q \in DOMAIN files
    /\ q \in DOMAIN files => files'[q] = files[q]
    /\ CompteDe(comptes', q) = CompteDe(comptes, q)

C20_Cadre ==
    [][/\ dernier'.op \in {"ajouter", "sortir"}
          => \A q \in Connus \ {dernier'.produit} : Intact(q)
       /\ dernier'.op = "traiter_commande"
          => \A q \in Connus \ Nommes(dernier'.demandes) : Intact(q)
       /\ DOMAIN files \subseteq DOMAIN files'
       /\ dernier'.op = "sortir" => DOMAIN files' = DOMAIN files]_vars

\* sortir took the last unit of A1: its queue is still there, empty, and the
\* queue and the count of B2 are untouched
C20_Temoin ==
    /\ dernier.op = "sortir"
    /\ dernier.produit = A1
    /\ dernier.item = A1
    /\ files = (A1 :> <<>>) @@ (B2 :> <<B2, B2>>)
    /\ comptes = (A1 :> -1) @@ (B2 :> 2)

====
